---- MODULE Spec2Model ----
(***************************************************************************)
(* The numeric core of src/app.py (an all-in-one Singapore property        *)
(* calculator): amort_payment, loan_balance, irr, calc_bsd, calc_absd and  *)
(* calc_max_loan.  One behaviour of the model is one call of one of these  *)
(* functions: Init draws the function and its arguments, the actions run   *)
(* the body, one action per loop pass.                                     *)
(*                                                                         *)
(* Numbers.  The code computes in Python floats.  The model computes in    *)
(* exact rationals [n |-> numerator, d |-> denominator] in lowest terms    *)
(* with d > 0, so it decides the algebra of the code and not the rounding  *)
(* of IEEE doubles.  TLC's integers are 32 bits wide and an overflow stops *)
(* TLC, so the arguments are small: terms of a few months, monthly rates   *)
(* with small denominators, a few Newton passes.  A Python exception       *)
(* leaves the call in pc = "raised".                                       *)
(***************************************************************************)
EXTENDS Integers, Sequences, FiniteSets

VARIABLES
    fn,     \* the function the call runs
    args,   \* its arguments, a record
    pc,     \* "call" (not entered), "loop" (inside its for loop), "done", "raised"
    loc,    \* its local variables, a record
    ret     \* the value it returned (None before the return, and after a raise)

vars == <<fn, args, pc, loc, ret>>

(***************************************************************************)
(* Exact rational arithmetic standing for the float operators of the code. *)
(***************************************************************************)
Abs(x) == IF x < 0 THEN -x ELSE x

RECURSIVE GCD(_, _)
GCD(a, b) == IF b = 0 THEN a ELSE GCD(b, a % b)

\* The rational num/den in lowest terms, den # 0.
Q(num, den) ==
    LET g == GCD(Abs(num), Abs(den))
        s == IF den < 0 THEN -1 ELSE 1
    IN  [n |-> s * (num \div g), d |-> s * (den \div g)]

I(k) == [n |-> k, d |-> 1]

Zero == I(0)

One == I(1)

QNeg(a) == [n |-> -a.n, d |-> a.d]

QAbs(a) == [n |-> Abs(a.n), d |-> a.d]

QAdd(a, b) ==
    LET g == GCD(a.d, b.d)
    IN  Q(a.n * (b.d \div g) + b.n * (a.d \div g), (a.d \div g) * b.d)

QSub(a, b) == QAdd(a, QNeg(b))

\* Cross-cancelled, so that the factors stay small.
QMul(a, b) ==
    LET g1 == GCD(Abs(a.n), b.d)
        g2 == GCD(Abs(b.n), a.d)
    IN  IF a.n = 0 \/ b.n = 0 THEN Zero
        ELSE [n |-> (a.n \div g1) * (b.n \div g2), d |-> (a.d \div g2) * (b.d \div g1)]

\* a / b for b # 0 (the callers guard b = 0, where Python raises).
QDiv(a, b) == QMul(a, IF b.n < 0 THEN [n |-> -b.d, d |-> -b.n] ELSE [n |-> b.d, d |-> b.n])

\* a/b < c/d for a, c >= 0 and b, d > 0, by comparing the integer parts and then
\* the reciprocals of the fractional parts: no product is formed.
RECURSIVE LtPos(_, _, _, _)
LtPos(a, b, c, d) ==
    IF a \div b # c \div d THEN a \div b < c \div d
    ELSE IF c % d = 0 THEN FALSE
    ELSE IF a % b = 0 THEN TRUE
    ELSE LtPos(d, c % d, b, a % b)

QLt(a, b) ==
    IF a.n < 0
    THEN IF b.n >= 0 THEN TRUE ELSE LtPos(-b.n, b.d, -a.n, a.d)
    ELSE IF b.n < 0 THEN FALSE ELSE LtPos(a.n, a.d, b.n, b.d)

QLe(a, b) == ~QLt(b, a)

\* Python's max(a, b) and min(a, b): the first argument wins a tie.
QMax(a, b) == IF QLt(a, b) THEN b ELSE a

QMin(a, b) == IF QLt(b, a) THEN b ELSE a

\* x ** k for an integer k >= 0; Python's 0.0 ** 0 is 1.0.
RECURSIVE QPow(_, _)
QPow(x, k) == IF k = 0 THEN One ELSE QMul(x, QPow(x, k - 1))

\* int(x): truncation toward zero.
IntTrunc(x) == IF x.n >= 0 THEN x.n \div x.d ELSE -((-x.n) \div x.d)

\* abs(x) < 10 ** -e, decided without forming 10 ** e:
\* n * K < d  iff  n <= (d - 1) \div K, and \div by 10 ** e is e times \div by 10.
RECURSIVE DivPow10(_, _)
DivPow10(m, e) == IF e = 0 THEN m ELSE DivPow10(m \div 10, e - 1)

QAbsBelowPow10(x, e) == Abs(x.n) <= DivPow10(x.d - 1, e)

\* What a call that raised leaves in place of a number.
ZeroDivisionError == [n |-> 0, d |-> 0]

IsNum(x) == x.d > 0

None == [n |-> 0, d |-> -1]

(***************************************************************************)
(* Duty tables                                                             *)
(***************************************************************************)
\* float("inf"), the width of the last tier: min(remaining, inf) is remaining.
Inf == [n |-> 1, d |-> 0]

\* (tier_amt, rate) pairs; the rates 0.01 .. 0.06 as exact fractions.
BSD_TIERS_Cumulative ==
    << <<I(180000), Q(1, 100)>>,
       <<I(360000), Q(2, 100)>>,
       <<I(1000000), Q(3, 100)>>,
       <<I(1500000), Q(4, 100)>>,
       <<I(3000000), Q(5, 100)>>,
       <<Inf, Q(6, 100)>> >>

BSD_TIERS ==
    << <<I(180000), Q(1, 100)>>,
       <<I(180000), Q(2, 100)>>,
       <<I(640000), Q(3, 100)>>,
       <<I(500000), Q(4, 100)>>,
       <<I(1500000), Q(5, 100)>>,
       <<Inf, Q(6, 100)>> >>

Profiles == {"SC", "PR", "Foreigner", "Entity", "Trust"}

ABSD_TABLE ==
    [p \in Profiles |->
        CASE p = "SC" -> <<Q(0, 100), Q(20, 100), Q(30, 100)>>
          [] p = "PR" -> <<Q(5, 100), Q(30, 100), Q(35, 100)>>
          [] p = "Foreigner" -> <<Q(60, 100), Q(60, 100), Q(60, 100)>>
          [] p = "Entity" -> <<Q(65, 100), Q(65, 100), Q(65, 100)>>
          [] p = "Trust" -> <<Q(65, 100), Q(65, 100), Q(65, 100)>>]

(***************************************************************************)
(* calc_bsd                                                                *)
(***************************************************************************)
\* min(remaining, tier_amt), tier_amt possibly inf.
TierTake(remaining, tier_amt) ==
    IF tier_amt = Inf THEN remaining ELSE QMin(remaining, tier_amt)

BsdAmounts ==
    {I(0), I(1), Q(1, 2), I(100000), I(180000), I(180001), I(360000), I(500000),
     I(1000000), I(1200000), I(1500000), I(2000000), I(3000000), I(3000001),
     I(4000000)}

BsdInit ==
    /\ fn = "calc_bsd"
    /\ args \in [amount : BsdAmounts]

\* bsd = 0; remaining = amount
BsdEnter ==
    /\ fn = "calc_bsd" /\ pc = "call"
    /\ pc' = "loop"
    /\ loc' = [bsd |-> Zero, remaining |-> args.amount, idx |-> 1,
               broke |-> FALSE, takes |-> <<>>]
    /\ UNCHANGED <<fn, args, ret>>

\* One pass of "for tier_amt, rate in BSD_TIERS", the break included.
BsdTier ==
    /\ fn = "calc_bsd" /\ pc = "loop"
    /\ ~loc.broke /\ loc.idx <= Len(BSD_TIERS)
    /\ LET tier_amt == BSD_TIERS[loc.idx][1]
           rate == BSD_TIERS[loc.idx][2]
           take == TierTake(loc.remaining, tier_amt)
           rem == QSub(loc.remaining, take)
       IN  loc' = [bsd |-> QAdd(loc.bsd, QMul(take, rate)),
                   remaining |-> rem,
                   idx |-> loc.idx + 1,
                   broke |-> QLe(rem, Zero),
                   takes |-> Append(loc.takes, take)]
    /\ UNCHANGED <<fn, args, pc, ret>>

\* return bsd, after the break or after the last tier.
BsdReturn ==
    /\ fn = "calc_bsd" /\ pc = "loop"
    /\ loc.broke \/ loc.idx > Len(BSD_TIERS)
    /\ pc' = "done"
    /\ ret' = loc.bsd
    /\ UNCHANGED <<fn, args, loc>>

(***************************************************************************)
(* calc_absd                                                               *)
(***************************************************************************)
AbsdIndexTwoBuckets(count) == IF count = 0 THEN 0 ELSE 1

\* idx = 0 if count == 0 else (1 if count == 1 else 2)
AbsdIndex(count) == IF count = 0 THEN 0 ELSE IF count = 1 THEN 1 ELSE 2

calc_absd(amount, profile, count) ==
    IF profile \notin DOMAIN ABSD_TABLE
    THEN Zero
    ELSE QMul(amount, ABSD_TABLE[profile][AbsdIndex(count) + 1])

MaxCount == 5

AbsdAmounts == {I(-1000), I(0), I(1), I(1000000), I(1800000)}

AbsdInit ==
    /\ fn = "calc_absd"
    /\ args \in [amount : AbsdAmounts,
                 profile : Profiles \cup {"Company", ""},
                 count : 0 .. MaxCount]

AbsdCall ==
    /\ fn = "calc_absd" /\ pc = "call"
    /\ pc' = "done"
    /\ ret' = calc_absd(args.amount, args.profile, args.count)
    /\ UNCHANGED <<fn, args, loc>>

(***************************************************************************)
(* amort_payment and loan_balance                                          *)
(***************************************************************************)
\* r = annual_rate / 12 / 100
MonthlyRate(annual_rate) == QDiv(QDiv(annual_rate, I(12)), I(100))

\* n = int(years * 12)
MonthCount(years) == IntTrunc(QMul(years, I(12)))

amort_payment(principal, annual_rate, years) ==
    IF QLe(principal, Zero) \/ QLe(years, Zero)
    THEN Zero
    ELSE LET r == MonthlyRate(annual_rate)
             n == MonthCount(years)
             growth == QPow(QAdd(One, r), n)
         IN  IF r = Zero
             THEN IF n = 0 THEN ZeroDivisionError ELSE QDiv(principal, I(n))
             ELSE IF QSub(growth, One) = Zero
                  THEN ZeroDivisionError
                  ELSE QDiv(QMul(QMul(principal, r), growth), QSub(growth, One))

\* The longest term, in months, and the most months elapsed, of a call.
MaxTermMonths == 4

MaxElapsed == 5

Principals == {I(-1200), I(0), I(1), I(1000), I(1200)}

\* Annual rates in percent: monthly rates 0, 1/20, 1/10, 1/4 and 1.
AnnualRates == {I(0), I(60), I(120), I(300), I(1200)}

\* Terms in years: every half month from -1 month to MaxTermMonths months.
TermYears == {Q(k, 24) : k \in -2 .. 2 * MaxTermMonths}

AmortInit ==
    /\ fn = "amort_payment"
    /\ args \in [principal : Principals, annual_rate : AnnualRates, years : TermYears]

AmortCall ==
    /\ fn = "amort_payment" /\ pc = "call"
    /\ LET pmt == amort_payment(args.principal, args.annual_rate, args.years)
       IN  /\ pc' = IF IsNum(pmt) THEN "done" ELSE "raised"
           /\ ret' = IF IsNum(pmt) THEN pmt ELSE None
    /\ UNCHANGED <<fn, args, loc>>

\* A loan's principal is an amount >= 0.
LoanPrincipals == {p \in Principals : QLe(Zero, p)}

LoanBalanceInit ==
    /\ fn = "loan_balance"
    /\ args \in [principal : LoanPrincipals, annual_rate : AnnualRates, years : TermYears,
                 months_elapsed : -1 .. MaxElapsed]

\* pmt = amort_payment(...); r = ...; bal = principal
LoanBalanceEnter ==
    /\ fn = "loan_balance" /\ pc = "call"
    /\ LET pmt == amort_payment(args.principal, args.annual_rate, args.years)
       IN  IF IsNum(pmt)
           THEN /\ pc' = "loop"
                /\ loc' = [pmt |-> pmt, r |-> MonthlyRate(args.annual_rate),
                           bal |-> args.principal, i |-> 0, trace |-> <<args.principal>>]
           ELSE /\ pc' = "raised"
                /\ loc' = loc
    /\ UNCHANGED <<fn, args, ret>>

AmortStepNoFloor(bal, r, pmt) ==
    LET interest == QMul(bal, r)
        principal_pay == QSub(pmt, interest)
    IN  QSub(bal, principal_pay)

\* interest = bal * r; principal_pay = pmt - interest; bal = max(0, bal - principal_pay)
AmortStep(bal, r, pmt) ==
    LET interest == QMul(bal, r)
        principal_pay == QSub(pmt, interest)
    IN  QMax(Zero, QSub(bal, principal_pay))

\* One pass of "for _ in range(months_elapsed)".
LoanBalanceStep ==
    /\ fn = "loan_balance" /\ pc = "loop"
    /\ loc.i < args.months_elapsed
    /\ LET bal == AmortStep(loc.bal, loc.r, loc.pmt)
       IN  loc' = [loc EXCEPT !.bal = bal, !.i = @ + 1, !.trace = Append(@, bal)]
    /\ UNCHANGED <<fn, args, pc, ret>>

\* return bal
LoanBalanceReturn ==
    /\ fn = "loan_balance" /\ pc = "loop"
    /\ loc.i >= args.months_elapsed
    /\ pc' = "done"
    /\ ret' = loc.bal
    /\ UNCHANGED <<fn, args, loc>>

(***************************************************************************)
(* irr                                                                     *)
(***************************************************************************)
\* npv after the inner loop: the sum over t = 0 .. len-1 of cf / (1 + r) ** t.
\* k counts the terms summed, cashflows[k] is the cash flow of t = k - 1.
RECURSIVE NpvSum(_, _, _)
NpvSum(cashflows, x, k) ==
    IF k = 0 THEN Zero
    ELSE QAdd(NpvSum(cashflows, x, k - 1), QDiv(cashflows[k], QPow(x, k - 1)))

\* d_npv after the inner loop: minus the sum over t > 0 of t * cf / (1 + r) ** (t + 1).
RECURSIVE DNpvSum(_, _, _)
DNpvSum(cashflows, x, k) ==
    IF k <= 1 THEN Zero
    ELSE QSub(DNpvSum(cashflows, x, k - 1),
              QDiv(QMul(I(k - 1), cashflows[k]), QPow(x, k)))

\* abs(d_npv) < 1e-12
DerivEpsExp == 12

IrrDerivNeverTooSmall(d_npv) == FALSE

IrrDerivTooSmall(d_npv) == QAbsBelowPow10(d_npv, DerivEpsExp)

\* One pass of "for _ in range(max_iter)" from the rate r: how it ends, and with
\* which rate.  cf / denom raises when denom is 0, that is when 1 + r = 0 and t > 0.
IrrPass(cashflows, r, tol) ==
    LET x == QAdd(One, r)
    IN  IF x = Zero /\ Len(cashflows) >= 2
        THEN [kind |-> "raise", r |-> r]
        ELSE LET npv == NpvSum(cashflows, x, Len(cashflows))
                 d_npv == DNpvSum(cashflows, x, Len(cashflows))
             IN  IF IrrDerivTooSmall(d_npv)
                 THEN [kind |-> "break", r |-> r]
                 ELSE IF d_npv = Zero  \* npv / d_npv
                 THEN [kind |-> "raise", r |-> r]
                 ELSE LET new_r == QSub(r, QDiv(npv, d_npv))
                      IN  IF QLt(QAbs(QSub(new_r, r)), tol)
                          THEN [kind |-> "return", r |-> new_r]
                          ELSE [kind |-> "continue", r |-> new_r]

\* The most Newton passes (max_iter) of a call.
MaxIter == 2

\* The (cashflows, guess) pairs of the calls: every pair keeps MaxIter + 1 exact
\* Newton passes within TLC's 32-bit integers.
NoTermSeries == {<<>>, <<I(5)>>, <<I(0)>>, <<I(-1)>>}

TwoPeriodSeries == {<<I(-1), I(1)>>, <<I(-1), I(2)>>, <<I(-2), I(3)>>, <<I(-1), I(0)>>}

ThreePeriodSeries == {<<I(-1), I(1), I(1)>>, <<I(-2), I(1), I(1)>>}

IrrInputs ==
    (NoTermSeries \X {I(0), I(-1), I(1), Q(2, 25)})
    \cup (TwoPeriodSeries \X {I(0), I(-1), I(1), I(3), Q(1, 2)})
    \cup (ThreePeriodSeries \X {I(0), I(-1), I(1), I(3)})
    \cup ({<<I(7), I(2), I(-1)>>} \X {I(0), I(-1), I(-2)})

Tolerances == {Q(1, 1000000), Q(1, 10), I(1), I(10)}

IrrInit ==
    /\ fn = "irr"
    /\ \E in \in IrrInputs, tol \in Tolerances, max_iter \in 0 .. MaxIter :
          args = [cashflows |-> in[1], guess |-> in[2], tol |-> tol,
                  max_iter |-> max_iter]

\* r = guess
IrrEnter ==
    /\ fn = "irr" /\ pc = "call"
    /\ pc' = "loop"
    /\ loc' = [r |-> args.guess, new_r |-> None, passes |-> 0, exit |-> "none",
               starts |-> <<>>]
    /\ UNCHANGED <<fn, args, ret>>

IrrOutcome == IrrPass(args.cashflows, loc.r, args.tol)

IrrInLoop == fn = "irr" /\ pc = "loop" /\ loc.passes < args.max_iter

\* The locals after a pass; passes, exit and starts (the rate each pass started
\* from) record the run.
IrrRan(exit, r, new_r) ==
    loc' = [r |-> r, new_r |-> new_r, passes |-> loc.passes + 1, exit |-> exit,
            starts |-> Append(loc.starts, loc.r)]

\* cf / denom divides by zero.
IrrPassRaise ==
    /\ IrrInLoop /\ IrrOutcome.kind = "raise"
    /\ pc' = "raised"
    /\ IrrRan("raise", loc.r, loc.new_r)
    /\ UNCHANGED <<fn, args, ret>>

\* if abs(d_npv) < 1e-12: break, and then return r
IrrPassBreak ==
    /\ IrrInLoop /\ IrrOutcome.kind = "break"
    /\ pc' = "done"
    /\ ret' = loc.r
    /\ IrrRan("break", loc.r, loc.new_r)
    /\ UNCHANGED <<fn, args>>

\* if abs(new_r - r) < tol: return new_r
IrrPassReturn ==
    /\ IrrInLoop /\ IrrOutcome.kind = "return"
    /\ pc' = "done"
    /\ ret' = IrrOutcome.r
    /\ IrrRan("tol", loc.r, IrrOutcome.r)
    /\ UNCHANGED <<fn, args>>

\* r = new_r
IrrPassContinue ==
    /\ IrrInLoop /\ IrrOutcome.kind = "continue"
    /\ IrrRan("none", IrrOutcome.r, IrrOutcome.r)
    /\ UNCHANGED <<fn, args, pc, ret>>

\* return r, the range exhausted
IrrExhaust ==
    /\ fn = "irr" /\ pc = "loop" /\ loc.passes >= args.max_iter
    /\ pc' = "done"
    /\ ret' = loc.r
    /\ loc' = [loc EXCEPT !.exit = "exhausted"]
    /\ UNCHANGED <<fn, args>>

(***************************************************************************)
(* calc_max_loan                                                           *)
(***************************************************************************)
TdsrCapPct == 55

MsrCapPct == 30

StressBufferPct == 3

MsrCapAllTypes(property_type) == Q(MsrCapPct, 100)

\* msr_cap = 0.30 if property_type in ("HDB", "EC") else 1.0
MsrCap(property_type) ==
    IF property_type \in {"HDB", "EC"} THEN Q(MsrCapPct, 100) ELSE One

\* avail_tdsr = max(0, income * tdsr_cap - debts)
AvailTdsr(income, debts) ==
    QMax(Zero, QSub(QMul(income, Q(TdsrCapPct, 100)), debts))

\* monthly_cap = min(avail_tdsr, avail_msr)
MonthlyCap(income, debts, property_type) ==
    QMin(AvailTdsr(income, debts), QMul(income, MsrCap(property_type)))

\* The annuity inversion of lines 95-100 for a monthly capacity; tenure >= 0.
LoanForCap(monthly_cap, tenure, rate) ==
    LET stress_rate == QAdd(rate, I(StressBufferPct))
        r == MonthlyRate(stress_rate)
        n == MonthCount(tenure)
        growth == QPow(QAdd(One, r), n)
    IN  IF r = Zero
        THEN QMul(monthly_cap, I(n))
        ELSE IF QMul(r, growth) = Zero
             THEN ZeroDivisionError
             ELSE QDiv(QMul(monthly_cap, QSub(growth, One)), QMul(r, growth))

MaxLoanAgeCapped(income, debts, age, tenure, rate, property_type, loan_type) ==
    LoanForCap(MonthlyCap(income, debts, property_type),
               QMin(tenure, I(75 - age)), rate)

calc_max_loan(income, debts, age, tenure, rate, property_type, loan_type) ==
    LoanForCap(MonthlyCap(income, debts, property_type), tenure, rate)

\* The longest tenure of a call, in months.
MaxTenureMonths == 3

Incomes == {I(0), I(1000), I(12000)}

Debts == {I(0), I(500), I(600), I(7000)}

Ages == {18, 35, 75}

PropertyTypes == {"HDB", "EC", "Private", "Landed"}

LoanTypes == {"Bank", "HDB"}

\* Quoted rates in percent: stress rates 0, 120, 300 and 1200.
QuotedRates == {I(-3), I(117), I(297), I(1197)}

MaxLoanInit ==
    /\ fn = "calc_max_loan"
    /\ args \in [income : Incomes, debts : Debts, age : Ages,
                 tenure : {Q(k, 12) : k \in 0 .. MaxTenureMonths},
                 rate : QuotedRates, property_type : PropertyTypes,
                 loan_type : LoanTypes]

MaxLoanCall ==
    /\ fn = "calc_max_loan" /\ pc = "call"
    /\ LET loan == calc_max_loan(args.income, args.debts, args.age, args.tenure,
                                 args.rate, args.property_type, args.loan_type)
       IN  /\ pc' = IF IsNum(loan) THEN "done" ELSE "raised"
           /\ ret' = IF IsNum(loan) THEN loan ELSE None
    /\ loc' = [monthly_cap |-> MonthlyCap(args.income, args.debts, args.property_type)]
    /\ UNCHANGED <<fn, args>>

(***************************************************************************)
(* The call                                                                *)
(***************************************************************************)
Init ==
    /\ pc = "call"
    /\ loc = [none |-> TRUE]
    /\ ret = None
    /\ \/ BsdInit
       \/ AbsdInit
       \/ AmortInit
       \/ LoanBalanceInit
       \/ IrrInit
       \/ MaxLoanInit

Next ==
    \/ BsdEnter
    \/ BsdTier
    \/ BsdReturn
    \/ AbsdCall
    \/ AmortCall
    \/ LoanBalanceEnter
    \/ LoanBalanceStep
    \/ LoanBalanceReturn
    \/ IrrEnter
    \/ IrrPassRaise
    \/ IrrPassBreak
    \/ IrrPassReturn
    \/ IrrPassContinue
    \/ IrrExhaust
    \/ MaxLoanCall

Spec == Init /\ [][Next]_vars

(***************************************************************************)
(* The claims                                                              *)
(***************************************************************************)
RECURSIVE SumSeq(_)
SumSeq(q) == IF q = <<>> THEN Zero ELSE QAdd(q[1], SumSeq(Tail(q)))

\* The part of amount between the cumulative breakpoints lo and hi.
Slice(amount, lo, hi) == QMax(Zero, QSub(QMin(amount, I(hi)), I(lo)))

\* The progressive duty by cumulative breakpoints 180k, 360k, 1.0M, 1.5M, 3.0M.
ProgressiveDuty(amount) ==
    QAdd(QMul(Q(1, 100), Slice(amount, 0, 180000)),
    QAdd(QMul(Q(2, 100), Slice(amount, 180000, 360000)),
    QAdd(QMul(Q(3, 100), Slice(amount, 360000, 1000000)),
    QAdd(QMul(Q(4, 100), Slice(amount, 1000000, 1500000)),
    QAdd(QMul(Q(5, 100), Slice(amount, 1500000, 3000000)),
         QMul(Q(6, 100), QMax(Zero, QSub(amount, I(3000000)))))))))

\* C1: for every amount >= 0 calc_bsd returns the progressive duty of the
\* cumulative breakpoints 180k, 360k, 1.0M, 1.5M, 3.0M (1% .. 5% per slice, 6%
\* above 3.0M), in particular 0 for 0, 1800 for 180000 and 24600 for 1000000, and
\* at loop exit the takes of the visited tiers sum to exactly the amount.
C1_BsdIsProgressiveDuty ==
    (fn = "calc_bsd" /\ QLe(Zero, args.amount)) =>
        /\ (pc = "loop" /\ (loc.broke \/ loc.idx > Len(BSD_TIERS)))
              => SumSeq(loc.takes) = args.amount
        /\ pc = "done" =>
              /\ ret = ProgressiveDuty(args.amount)
              /\ SumSeq(loc.takes) = args.amount
              /\ args.amount = I(0) => ret = I(0)
              /\ args.amount = I(180000) => ret = I(1800)
              /\ args.amount = I(1000000) => ret = I(24600)

C1_Witness ==
    /\ fn = "calc_bsd" /\ pc = "done"
    /\ args.amount = I(4000000)
    /\ Len(loc.takes) = 6
    /\ ret = I(179600)

\* The flat ABSD rate, in percent, of a profile and a bucket 0, 1 or 2.
AbsdPct(profile, bucket) ==
    CASE profile = "SC" -> <<0, 20, 30>>[bucket + 1]
      [] profile = "PR" -> <<5, 30, 35>>[bucket + 1]
      [] profile = "Foreigner" -> 60
      [] profile \in {"Entity", "Trust"} -> 65

\* C2: for every amount, profile and count >= 0, calc_absd returns amount times
\* the flat rate at (profile, bucket), bucket 0 for count 0, 1 for count 1 and 2
\* for every count >= 2; for a profile outside SC, PR, Foreigner, Entity, Trust it
\* returns 0 whatever the amount and count.
C2_AbsdIsFlatRate ==
    (fn = "calc_absd" /\ pc = "done" /\ args.count >= 0) =>
        IF args.profile \in {"SC", "PR", "Foreigner", "Entity", "Trust"}
        THEN \E bucket \in 0 .. 2 :
                /\ \/ args.count = 0 /\ bucket = 0
                   \/ args.count = 1 /\ bucket = 1
                   \/ args.count >= 2 /\ bucket = 2
                /\ ret = QMul(args.amount, Q(AbsdPct(args.profile, bucket), 100))
        ELSE ret = Zero

C2_Witness ==
    /\ fn = "calc_absd" /\ pc = "done"
    /\ args.profile = "Entity" /\ args.count = 5 /\ args.amount = I(1000000)
    /\ ret = I(650000)

\* C3: loan_balance is non-increasing in monthsElapsed: for every principal,
\* annual rate >= 0 and years, no amortization step of the loop raises the running
\* balance, including when years <= 0 makes the payment 0.
C3_BalanceNeverRises ==
    (fn = "loan_balance" /\ pc \in {"loop", "done"} /\ QLe(Zero, args.annual_rate)) =>
        \A i \in 1 .. Len(loc.trace) - 1 : QLe(loc.trace[i + 1], loc.trace[i])

\* What does hold of the code: a step never raises the balance of a loan that
\* is being paid (principal >= 0, and a payment > 0 or nothing owed).
BalanceNeverRisesWhilePaying ==
    (/\ fn = "loan_balance" /\ pc \in {"loop", "done"}
     /\ QLe(Zero, args.annual_rate) /\ QLe(Zero, args.principal)
     /\ QLt(Zero, loc.pmt) \/ args.principal = Zero) =>
        \A i \in 1 .. Len(loc.trace) - 1 : QLe(loc.trace[i + 1], loc.trace[i])

\* C4: for every principal >= 0, annual rate >= 0, years and monthsElapsed >= 0
\* the running balance after each step and the returned balance are >= 0, also
\* when monthsElapsed exceeds years * 12, and once the balance is 0 it stays 0.
C4_BalanceNeverNegative ==
    (/\ fn = "loan_balance" /\ pc \in {"loop", "done"}
     /\ QLe(Zero, args.principal) /\ QLe(Zero, args.annual_rate)) =>
        /\ \A i \in 1 .. Len(loc.trace) : QLe(Zero, loc.trace[i])
        /\ \A i \in 1 .. Len(loc.trace) - 1 :
              loc.trace[i] = Zero => loc.trace[i + 1] = Zero
        /\ pc = "done" => QLe(Zero, ret)

C4_Witness ==
    /\ fn = "loan_balance" /\ pc = "done"
    /\ QLt(Zero, args.principal) /\ QLt(Zero, args.annual_rate)
    /\ MonthCount(args.years) >= 2
    /\ args.months_elapsed > MonthCount(args.years) + 1
    /\ QLt(Zero, loc.trace[MonthCount(args.years)])
    /\ ret = Zero

\* years * 12 is a whole number of months.
WholeMonths(years) == QMul(years, I(12)).d = 1

\* C5: for all principal > 0, rate >= 0 and years > 0, amort_payment > 0, and
\* after monthsElapsed = years * 12 months of that payment loan_balance is exactly
\* 0, while the balance is still > 0 after any smaller number of months.
C5_PaymentPositiveAndAmortizes ==
    (/\ fn \in {"amort_payment", "loan_balance"} /\ pc # "call"
     /\ QLt(Zero, args.principal) /\ QLe(Zero, args.annual_rate)
     /\ QLt(Zero, args.years)) =>
        /\ pc # "raised"
        /\ (fn = "amort_payment" /\ pc = "done") => QLt(Zero, ret)
        /\ (fn = "loan_balance" /\ pc \in {"loop", "done"}) =>
              /\ QLt(Zero, loc.pmt)
              /\ WholeMonths(args.years) =>
                    \A i \in 1 .. Len(loc.trace) :
                        /\ i - 1 < MonthCount(args.years) => QLt(Zero, loc.trace[i])
                        /\ i - 1 = MonthCount(args.years) => loc.trace[i] = Zero

\* What does hold of the code: the same, for a term of at least one month
\* (int(years * 12) >= 1), where amort_payment does not divide by zero.
AmortizesOverWholeTerm ==
    (/\ fn \in {"amort_payment", "loan_balance"} /\ pc # "call"
     /\ QLt(Zero, args.principal) /\ QLe(Zero, args.annual_rate)
     /\ MonthCount(args.years) >= 1) =>
        /\ pc # "raised"
        /\ (fn = "amort_payment" /\ pc = "done") => QLt(Zero, ret)
        /\ (fn = "loan_balance" /\ pc \in {"loop", "done"}) =>
              /\ QLt(Zero, loc.pmt)
              /\ WholeMonths(args.years) =>
                    \A i \in 1 .. Len(loc.trace) :
                        /\ i - 1 < MonthCount(args.years) => QLt(Zero, loc.trace[i])
                        /\ i - 1 = MonthCount(args.years) => loc.trace[i] = Zero

AmortizesOverWholeTerm_Witness ==
    /\ fn = "loan_balance" /\ pc = "done"
    /\ args.principal = I(1000) /\ args.annual_rate = I(300)
    /\ args.years = Q(4, 12) /\ args.months_elapsed = 4
    /\ QLt(Zero, loc.trace[4])
    /\ ret = Zero

C7_AgeAndLoanTypeInert ==
    (fn = "calc_max_loan" /\ pc = "done") =>
        \A age \in Ages, loan_type \in LoanTypes :
            calc_max_loan(args.income, args.debts, age, args.tenure, args.rate,
                          args.property_type, loan_type) = ret

C7_Witness ==
    /\ fn = "calc_max_loan" /\ pc = "done"
    /\ args.age = 75 /\ args.loan_type = "HDB"
    /\ QLt(Zero, ret)

\* C8: no core function raises an exception on numeric inputs; every degenerate
\* input yields a numeric return value instead.
C8_NoCoreFunctionRaises == pc # "raised"

\* C9: irr terminates after at most max_iter passes and always returns a rate,
\* never a failure signal: r_next at the first pass with |r_next - r| < tol,
\* otherwise the last computed rate, and the initial guess when max_iter = 0.
C9_IrrAlwaysReturnsRate ==
    fn = "irr" =>
        /\ pc # "raised"
        /\ pc \in {"loop", "done"} => loc.passes <= args.max_iter
        /\ pc = "done" =>
              /\ IsNum(ret)
              /\ args.max_iter = 0 => ret = args.guess
              /\ \A k \in 1 .. Len(loc.starts) - 1 :
                    ~QLt(QAbs(QSub(loc.starts[k + 1], loc.starts[k])), args.tol)
              /\ loc.exit = "tol" =>
                    /\ ret = loc.new_r
                    /\ QLt(QAbs(QSub(loc.new_r, loc.r)), args.tol)
              /\ loc.exit = "exhausted" =>
                    /\ loc.passes = args.max_iter
                    /\ ret = loc.r
                    /\ args.max_iter > 0 => ret = loc.new_r
              /\ loc.exit = "break" => ret = loc.r

\* What does hold of the code: the same, for the calls that do not divide by zero.
IrrReturnsRateUnlessRaised ==
    (fn = "irr" /\ pc \in {"loop", "done"}) =>
        /\ loc.passes <= args.max_iter
        /\ pc = "done" =>
              /\ IsNum(ret)
              /\ args.max_iter = 0 => ret = args.guess
              /\ \A k \in 1 .. Len(loc.starts) - 1 :
                    ~QLt(QAbs(QSub(loc.starts[k + 1], loc.starts[k])), args.tol)
              /\ loc.exit = "tol" =>
                    /\ ret = loc.new_r
                    /\ QLt(QAbs(QSub(loc.new_r, loc.r)), args.tol)
              /\ loc.exit = "exhausted" =>
                    /\ loc.passes = args.max_iter
                    /\ ret = loc.r
                    /\ args.max_iter > 0 => ret = loc.new_r
              /\ loc.exit = "break" => ret = loc.r

\* C10: whenever |f'(r)| < 1e-12 at the rate r a pass starts from, irr stops at
\* once and returns that r without a Newton step; so for a single-element series
\* irr returns the initial guess unchanged, whatever the element and the guess.
C10_DerivativeGuard ==
    (fn = "irr" /\ pc # "call") =>
        /\ \A k \in 1 .. Len(loc.starts) :
              LET r == loc.starts[k]
                  x == QAdd(One, r)
              IN  (/\ x # Zero \/ Len(args.cashflows) < 2
                   /\ QAbsBelowPow10(DNpvSum(args.cashflows, x, Len(args.cashflows)), 12))
                  => /\ k = Len(loc.starts)
                     /\ pc = "done"
                     /\ loc.exit = "break"
                     /\ ret = r
        /\ Len(args.cashflows) = 1 =>
              /\ pc # "raised"
              /\ Len(loc.starts) <= 1
              /\ pc = "done" => ret = args.guess

C10_Witness ==
    /\ fn = "irr" /\ pc = "done"
    /\ args.cashflows = <<I(5)>> /\ args.guess = I(-1) /\ args.max_iter >= 1
    /\ loc.exit = "break"
    /\ ret = I(-1)

====
